---- MODULE Spec2Model ----
(***************************************************************************)
(* Model of utils/queryQueue.ts: the retry / backoff wrapper `queryQueue`. *)
(*                                                                         *)
(* One QueryState is shared by every invocation of one wrapped function.   *)
(* Each invocation ("caller" c) owns a promise and a chain of              *)
(* continuations: a timer (setTimeout), the awaited unit of work, and the  *)
(* continuation that follows `await attemptCallbackRun` in the timer       *)
(* callback.  Every action below is one synchronous run of JavaScript      *)
(* between two suspension points.                                          *)
(*                                                                         *)
(* The route handlers request/add-event.ts and                             *)
(* request/get-events-by-user-id.ts and the error handlers of              *)
(* services/api-middleware.ts are modelled as functions of what the        *)
(* external service answers; SpecHttp applies them to every such answer.   *)
(***************************************************************************)
EXTENDS Integers, FiniteSets, Sequences, TLC

\* ---------------------------------------------------------------- bounds
MaxCalls == 4           \* callers of the general specification
MaxFails == 2           \* failed attempts the flaky unit of work may produce
ArgCalls == 3           \* callers of the specification with free arguments
MaxArg == 2             \* distinct argument values a caller may pass there
SatCalls == 5           \* callers of the saturation scenario
NLoad == 6              \* callers of the load scenario
BadCalls == 3           \* callers of the scenario with a bad request
IsoCalls == 3           \* callers of the scenario with several queues
IsoQueues == 2          \* wrapped functions of that scenario
PairCalls == 2          \* callers of the scenario with one call after another
MaxIdLen == 2           \* characters of the id of a request
MaxEvents == 2          \* events of a user, and distinct event ids

\* ------------------------------------------------------ program constants
MAX_RETRIES_PER_DAY == 300
MAX_ACTIVE_CALLS == 5
SATURATION_PENALTY == 100
BACKOFF_CAP == 3
THROTTLE_LIMIT == 5

VARIABLES
    numberOfCalls,      \* per queue: queryState.numberOfCalls
    numberOfFailures,   \* per queue: queryState.numberOfFailures
    currentActiveCalls, \* per queue: key set of queryState.currentActiveCalls
    calls,              \* per queue: queryState.calls : index -> [args, retries]
    qOf,                \* per caller: the wrapped function it invokes
    pc,                 \* per caller: position of its continuation chain
    index,              \* per caller: callIndex captured by the closures
    cargs,              \* per caller: args captured by the closures
    delay,              \* per caller: delay handed to the pending setTimeout
    isFull,             \* per caller: isFull computed for the pending timer
    doomed,             \* per caller: the attempt in flight is bound to fail
    lastError,          \* per caller: the error its last failed attempt threw
    future,             \* per caller: state of the promise returned to it
    value,              \* per caller: value the promise was resolved with
    attempts,           \* per caller: invocations of the unit of work so far
    failed,             \* per caller: failed attempts of this caller so far
    work,               \* behaviour of the wrapped unit of work
    nCalls,             \* number of callers of this run
    nArgs,              \* number of argument values the callers choose from
    nFails,             \* failed attempts the flaky unit of work may produce
    nBad,               \* callers that may pass the request the service rejects
    nQueues,            \* number of wrapped functions of this run
    http                \* the request a route handler has handled last

vars == <<numberOfCalls, numberOfFailures, currentActiveCalls, calls, qOf, pc,
          index, cargs, delay, isFull, doomed, lastError, future, value,
          attempts, failed, work, nCalls, nArgs, nFails, nBad, nQueues,
          http>>

\* the variables no step changes
scenario == <<qOf, work, nCalls, nArgs, nFails, nBad, nQueues, http>>

Callers == 1..nCalls
Queues == 1..nQueues
ArgVals == 1..nArgs
NoValue == 0
NoIndex == -1
NoDelay == <<0, 1>>
\* the request body the external service answers with status 400
BadArg == -2
\* no request handled yet
NoRequest == [op |-> "none"]

\* ------------------------------------------------------------ pure helpers
RECURSIVE SumOver(_, _)
SumOver(f, S) ==
    IF S = {} THEN 0
    ELSE LET x == CHOOSE y \in S : TRUE IN f[x] + SumOver(f, S \ {x})

\* Math.pow(2, e) as the fraction <<numerator, denominator>>
Pow2(e) == IF e >= 0 THEN <<2 ^ e, 1>> ELSE <<1, 2 ^ (0 - e)>>

\* the result the unit of work returns for the arguments it was called with
Result(a) == 10 + a

areActiveCallsFull(active) == Cardinality(active) >= MAX_ACTIVE_CALLS

\* Math.pow with its arguments exchanged
backOffArgumentsSwapped(failures) ==
    LET e == IF failures > BACKOFF_CAP THEN BACKOFF_CAP ELSE failures
    IN <<e * e, 1>>

backOff(failures) ==
    Pow2(IF failures > BACKOFF_CAP THEN BACKOFF_CAP ELSE failures)

\* the delay argument of setTimeout in retryCallback
TimeoutDelay(full, b) ==
    IF full THEN <<SATURATION_PENALTY * b[2] + b[1], b[2]>> ELSE b

\* one state object for every wrapped function
QueueOfModule(c) == 1

\* the queryState the closures of caller c captured: that of the wrapped
\* function it invoked
QueueOf(c) == qOf[c]

\* attempts whose unit of work has been invoked and has not completed
InFlight == {c \in Callers : pc[c] = "running"}

\* a continuation of a successful attempt is between `resolve` and the
\* statement after `await attemptCallbackRun`: only microtasks run here
InGap == \E c \in Callers : pc[c] = "settling"

\* whether an attempt of caller c that starts now is bound to fail
\* (n = attempts in flight, this one included); the flaky unit of work
\* decides when it completes
Doomed(c, n) ==
    CASE cargs[c] = BadArg -> TRUE
      [] work = "broken"   -> TRUE
      [] work = "throttle" -> n > THROTTLE_LIMIT
      [] OTHER             -> FALSE

\* callers whose unit of work fails although the request is good
Healthy == {d \in Callers : cargs[d] # BadArg}

\* outcomes open to the attempt of caller c that is in flight
MayFail(c) ==
    doomed[c] \/ (work = "flaky" /\ SumOver(failed, Healthy) < nFails)

\* a unit of work that completes the calls in the order of submission
MaySucceedInOrder(c) ==
    ~doomed[c] /\ \A d \in Callers : d < c => future[d] # "pending"

MaySucceed(c) == ~doomed[c]

\* the error addEventHandler throws for a failed attempt of caller c
ErrorOf(c) ==
    IF cargs[c] = BadArg THEN "BAD_REQUEST" ELSE "SERVICE_UNAVAILABLE"

\* ------------------------------------------------------------------- Init
\* the queue part of the initial state
InitQueue(w, n, k, m, b, nq) ==
    /\ numberOfCalls = [q \in 1..nq |-> 0]
    /\ numberOfFailures = [q \in 1..nq |-> 0]
    /\ currentActiveCalls = [q \in 1..nq |-> {}]
    /\ calls = [q \in 1..nq |-> <<>>]
    /\ qOf \in [1..n -> 1..nq]
    /\ pc = [c \in 1..n |-> "idle"]
    /\ index = [c \in 1..n |-> NoIndex]
    /\ cargs = [c \in 1..n |-> NoValue]
    /\ delay = [c \in 1..n |-> NoDelay]
    /\ isFull = [c \in 1..n |-> FALSE]
    /\ doomed = [c \in 1..n |-> FALSE]
    /\ lastError = [c \in 1..n |-> "none"]
    /\ future = [c \in 1..n |-> "none"]
    /\ value = [c \in 1..n |-> NoValue]
    /\ attempts = [c \in 1..n |-> 0]
    /\ failed = [c \in 1..n |-> 0]
    /\ work = w
    /\ nCalls = n
    /\ nArgs = k
    /\ nFails = m
    /\ nBad = b
    /\ nQueues = nq

InitState(w, n, k, m, b, nq) ==
    /\ InitQueue(w, n, k, m, b, nq)
    /\ http = NoRequest

Init == InitState("flaky", MaxCalls, 1, MaxFails, 0, 1)

\* free arguments: callers that pass different values, one transient failure
InitArgs == InitState("flaky", ArgCalls, MaxArg, 1, 0, 1)

\* one caller; the unit of work that always fails may also be handed the
\* request it answers with status 400
InitAlone ==
    \E w \in {"flaky", "broken"}, b \in {0, 1} :
        /\ (w = "flaky" => b = 0)
        /\ InitState(w, 1, 1, MaxFails, b, 1)

InitLoad == InitState("throttle", NLoad, 1, 0, 0, 1)

\* saturation: enough callers to fill the active set, and the one transient
\* failure that re-arms a timer while it is full
InitSat == InitState("flaky", SatCalls, 1, 1, 0, 1)

\* one caller passes the request the service always rejects, the other
\* callers see at most one transient failure
InitBad == InitState("flaky", BadCalls, 1, 1, 1, 1)

\* two callers, one of which may pass the bad request; no other failure
InitPair == InitState("flaky", PairCalls, 1, 0, 1, 1)

\* several wrapped functions, one transient failure
InitIso == InitState("flaky", IsoCalls, 1, 1, 0, IsoQueues)

\* ---------------------------------------------------------------- actions

\* the load scenario issues all its calls in one synchronous loop, before
\* any timer can fire
SubmitAllowed ==
    IF work = "throttle" THEN \A d \in Callers : attempts[d] = 0 ELSE TRUE

\* the arguments the next caller may pass
ArgChoices ==
    ArgVals \cup
        (IF Cardinality({d \in Callers : cargs[d] = BadArg}) < nBad
         THEN {BadArg} ELSE {})

\* a scheduler that always waits the base backoff
retryCallbackBaseBackoff(c, failures, active) ==
    /\ isFull' = [isFull EXCEPT ![c] = areActiveCallsFull(active)]
    /\ delay' = [delay EXCEPT ![c] =
                    TimeoutDelay(areActiveCallsFull(active), backOff(0))]
    /\ pc' = [pc EXCEPT ![c] = "timer"]

\* retryCallback up to and including setTimeout: the timer of caller c is
\* armed with a delay computed from the queue state given
retryCallback(c, failures, active) ==
    /\ isFull' = [isFull EXCEPT ![c] = areActiveCallsFull(active)]
    /\ delay' = [delay EXCEPT ![c] =
                    TimeoutDelay(areActiveCallsFull(active), backOff(failures))]
    /\ pc' = [pc EXCEPT ![c] = "timer"]

\* a submission that does not count the call
SubmitKeepingCount(c) ==
    /\ pc[c] = "idle"
    /\ (IF c = 1 THEN TRUE ELSE pc[c - 1] # "idle")
    /\ SubmitAllowed
    /\ \E a \in ArgChoices :
        LET q == QueueOf(c)
            callIndex == numberOfCalls[q]
        IN
        /\ calls' = [calls EXCEPT ![q] =
                        [i \in (DOMAIN calls[q]) \cup {callIndex} |->
                            IF i = callIndex THEN [args |-> a, retries |-> 0]
                            ELSE calls[q][i]]]
        /\ numberOfCalls' = numberOfCalls
        /\ index' = [index EXCEPT ![c] = callIndex]
        /\ cargs' = [cargs EXCEPT ![c] = a]
        /\ future' = [future EXCEPT ![c] = "pending"]
        /\ retryCallback(c, numberOfFailures[q], currentActiveCalls[q])
    /\ UNCHANGED <<numberOfFailures, currentActiveCalls, doomed, lastError,
                   value, attempts, failed, scenario>>

\* queuedFn(...args): createPromiseExecutor runs synchronously inside
\* new Promise and calls retryCallback
Submit(c) ==
    /\ pc[c] = "idle"
    /\ (IF c = 1 THEN TRUE ELSE pc[c - 1] # "idle")
    /\ SubmitAllowed
    /\ \E a \in ArgChoices :
        LET q == QueueOf(c)
            callIndex == numberOfCalls[q]
        IN
        /\ calls' = [calls EXCEPT ![q] =
                        [i \in (DOMAIN calls[q]) \cup {callIndex} |->
                            IF i = callIndex THEN [args |-> a, retries |-> 0]
                            ELSE calls[q][i]]]
        /\ numberOfCalls' = [numberOfCalls EXCEPT ![q] = @ + 1]
        /\ index' = [index EXCEPT ![c] = callIndex]
        /\ cargs' = [cargs EXCEPT ![c] = a]
        /\ future' = [future EXCEPT ![c] = "pending"]
        /\ retryCallback(c, numberOfFailures[q], currentActiveCalls[q])
    /\ UNCHANGED <<numberOfFailures, currentActiveCalls, doomed, lastError,
                   value, attempts, failed, scenario>>

\* a timer that is held back when saturation is not what it was when the
\* timer was armed
TimerDueReevaluated(c) ==
    /\ pc[c] = "timer"
    /\ isFull[c] = areActiveCallsFull(currentActiveCalls[QueueOf(c)])

\* the timer of caller c expires: setTimeout was given a number, and
\* nothing looks at the queue state again before the callback runs
TimerDue(c) == pc[c] = "timer"

\* a timer callback that waits for a free slot instead of starting
TimerFiresWhenNotFull(c) ==
    /\ TimerDue(c)
    /\ ~InGap
    /\ ~areActiveCallsFull(currentActiveCalls[QueueOf(c)])
    /\ currentActiveCalls' =
           [currentActiveCalls EXCEPT ![QueueOf(c)] = @ \cup {index[c]}]
    /\ attempts' = [attempts EXCEPT ![c] = @ + 1]
    /\ doomed' = [doomed EXCEPT ![c] = Doomed(c, Cardinality(InFlight) + 1)]
    /\ pc' = [pc EXCEPT ![c] = "running"]
    /\ delay' = [delay EXCEPT ![c] = NoDelay]
    /\ isFull' = [isFull EXCEPT ![c] = FALSE]
    /\ UNCHANGED <<numberOfCalls, numberOfFailures, calls, index, cargs,
                   lastError, future, value, failed, scenario>>

\* the setTimeout callback starts: attemptCallbackRun marks the index
\* active and invokes func(...args); the chain suspends at `await func`
TimerFires(c) ==
    /\ TimerDue(c)
    /\ ~InGap
    /\ currentActiveCalls' =
           [currentActiveCalls EXCEPT ![QueueOf(c)] = @ \cup {index[c]}]
    /\ attempts' = [attempts EXCEPT ![c] = @ + 1]
    /\ doomed' = [doomed EXCEPT ![c] = Doomed(c, Cardinality(InFlight) + 1)]
    /\ pc' = [pc EXCEPT ![c] = "running"]
    /\ delay' = [delay EXCEPT ![c] = NoDelay]
    /\ isFull' = [isFull EXCEPT ![c] = FALSE]
    /\ UNCHANGED <<numberOfCalls, numberOfFailures, calls, index, cargs,
                   lastError, future, value, failed, scenario>>

\* func called with the args stored in the call record of the index
callResultFromRecord(c) == Result(calls[QueueOf(c)][index[c]].args)

\* callResult: what func(...args) returns to attemptCallbackRun, which was
\* handed the caller's own args
callResult(c) == Result(cargs[c])

\* a success that also removes the record of the call
WorkSucceedsDeletingRecord(c) ==
    /\ pc[c] = "running"
    /\ MaySucceed(c)
    /\ ~InGap
    /\ future' = [future EXCEPT ![c] = "resolved"]
    /\ value' = [value EXCEPT ![c] = callResult(c)]
    /\ currentActiveCalls' =
           [currentActiveCalls EXCEPT ![QueueOf(c)] = @ \ {index[c]}]
    /\ numberOfCalls' = [numberOfCalls EXCEPT ![QueueOf(c)] = @ - 1]
    /\ pc' = [pc EXCEPT ![c] = "settling"]
    /\ calls' = [calls EXCEPT ![QueueOf(c)] =
                    [i \in (DOMAIN calls[QueueOf(c)]) \ {index[c]} |->
                        calls[QueueOf(c)][i]]]
    /\ UNCHANGED <<numberOfFailures, index, cargs, delay, isFull,
                   doomed, lastError, attempts, failed, scenario>>

\* func fulfilled: the rest of attemptCallbackRun
WorkSucceeds(c) ==
    /\ pc[c] = "running"
    /\ MaySucceed(c)
    /\ ~InGap
    /\ future' = [future EXCEPT ![c] = "resolved"]
    /\ value' = [value EXCEPT ![c] = callResult(c)]
    /\ currentActiveCalls' =
           [currentActiveCalls EXCEPT ![QueueOf(c)] = @ \ {index[c]}]
    /\ numberOfCalls' = [numberOfCalls EXCEPT ![QueueOf(c)] = @ - 1]
    /\ pc' = [pc EXCEPT ![c] = "settling"]
    /\ UNCHANGED <<numberOfFailures, calls, index, cargs, delay, isFull,
                   doomed, lastError, attempts, failed, scenario>>

\* a continuation that schedules the call again after its success
SettleAndSchedule(c) ==
    /\ pc[c] = "settling"
    /\ LET q == QueueOf(c) IN
       IF index[c] \in DOMAIN calls[q]
       THEN /\ numberOfFailures' =
                  IF calls[q][index[c]].retries > 0
                  THEN [numberOfFailures EXCEPT ![q] = @ - 1]
                  ELSE numberOfFailures
            /\ retryCallback(c, numberOfFailures'[q], currentActiveCalls[q])
       ELSE /\ numberOfFailures' = numberOfFailures
            /\ pc' = [pc EXCEPT ![c] = "crashed"]
            /\ UNCHANGED <<delay, isFull>>
    /\ UNCHANGED <<numberOfCalls, currentActiveCalls, calls, index, cargs,
                   doomed, lastError, future, value, attempts,
                   failed, scenario>>

\* the statement after `await attemptCallbackRun` in the timer callback;
\* a missing record makes it throw, and the catch branch throws again
Settle(c) ==
    /\ pc[c] = "settling"
    /\ LET q == QueueOf(c) IN
       IF index[c] \in DOMAIN calls[q]
       THEN /\ numberOfFailures' =
                  IF calls[q][index[c]].retries > 0
                  THEN [numberOfFailures EXCEPT ![q] = @ - 1]
                  ELSE numberOfFailures
            /\ pc' = [pc EXCEPT ![c] = "done"]
       ELSE /\ numberOfFailures' = numberOfFailures
            /\ pc' = [pc EXCEPT ![c] = "crashed"]
    /\ UNCHANGED <<numberOfCalls, currentActiveCalls, calls, index, cargs,
                   delay, isFull, doomed, lastError, future, value, attempts,
                   failed, scenario>>

\* an exhaustion path that leaves the record of the call in place
maxRetriesExceededKeepingRecord(c) ==
    /\ currentActiveCalls' =
           [currentActiveCalls EXCEPT ![QueueOf(c)] = @ \ {index[c]}]
    /\ pc' = [pc EXCEPT ![c] = "exhausted"]
    /\ UNCHANGED <<numberOfFailures, calls, delay, isFull>>

\* the branch of handleRunErrorsAndRetries taken when the stored count is
\* beyond the cap: both entries of the index are deleted and 'Max retries
\* exceeded' is thrown inside the timer callback
maxRetriesExceeded(c) ==
    /\ currentActiveCalls' =
           [currentActiveCalls EXCEPT ![QueueOf(c)] = @ \ {index[c]}]
    /\ calls' = [calls EXCEPT ![QueueOf(c)] =
                    [i \in (DOMAIN calls[QueueOf(c)]) \ {index[c]} |->
                        calls[QueueOf(c)][i]]]
    /\ pc' = [pc EXCEPT ![c] = "exhausted"]
    /\ UNCHANGED <<numberOfFailures, delay, isFull>>

\* a handler that retries what is worth retrying: the 400 answer is final
handleRunErrorsByKind(c) ==
    LET q == QueueOf(c) IN
    IF index[c] \notin DOMAIN calls[q]
    THEN /\ pc' = [pc EXCEPT ![c] = "crashed"]
         /\ UNCHANGED <<numberOfFailures, currentActiveCalls, calls, delay,
                        isFull>>
    ELSE LET currentRetryCount == calls[q][index[c]].retries IN
         IF currentRetryCount > MAX_RETRIES_PER_DAY
                \/ lastError'[c] = "BAD_REQUEST"
         THEN maxRetriesExceeded(c)
         ELSE /\ numberOfFailures' = [numberOfFailures EXCEPT ![q] = @ + 1]
              /\ calls' = [calls EXCEPT ![q][index[c]].retries =
                              currentRetryCount + 1]
              /\ retryCallback(c, numberOfFailures[q] + 1,
                               currentActiveCalls[q])
              /\ UNCHANGED currentActiveCalls

\* handleRunErrorsAndRetries for caller c: give up, or count the failure
\* and call retryCallback
handleRunErrorsAndRetries(c) ==
    LET q == QueueOf(c) IN
    IF index[c] \notin DOMAIN calls[q]
    THEN \* calls[index] is undefined: TypeError, nobody catches it
         /\ pc' = [pc EXCEPT ![c] = "crashed"]
         /\ UNCHANGED <<numberOfFailures, currentActiveCalls, calls, delay,
                        isFull>>
    ELSE LET currentRetryCount == calls[q][index[c]].retries IN
         IF currentRetryCount > MAX_RETRIES_PER_DAY
         THEN maxRetriesExceeded(c)
         ELSE /\ numberOfFailures' = [numberOfFailures EXCEPT ![q] = @ + 1]
              /\ calls' = [calls EXCEPT ![q][index[c]].retries =
                              currentRetryCount + 1]
              /\ retryCallback(c, numberOfFailures[q] + 1,
                               currentActiveCalls[q])
              /\ UNCHANGED currentActiveCalls

\* a catch branch that also hands the error to the caller
WorkFailsRejectingCaller(c) ==
    /\ pc[c] = "running"
    /\ MayFail(c)
    /\ ~InGap
    /\ failed' = [failed EXCEPT ![c] = @ + 1]
    /\ lastError' = [lastError EXCEPT ![c] = ErrorOf(c)]
    /\ handleRunErrorsAndRetries(c)
    /\ future' = [future EXCEPT ![c] = "rejected"]
    /\ UNCHANGED <<numberOfCalls, index, cargs, doomed, value,
                   attempts, scenario>>

\* func rejected: the catch branch of the timer callback
WorkFails(c) ==
    /\ pc[c] = "running"
    /\ MayFail(c)
    /\ ~InGap
    /\ failed' = [failed EXCEPT ![c] = @ + 1]
    /\ lastError' = [lastError EXCEPT ![c] = ErrorOf(c)]
    /\ handleRunErrorsAndRetries(c)
    /\ UNCHANGED <<numberOfCalls, index, cargs, doomed, future, value,
                   attempts, scenario>>

Next ==
    \E c \in Callers :
        \/ Submit(c)
        \/ TimerFires(c)
        \/ WorkSucceeds(c)
        \/ WorkFails(c)
        \/ Settle(c)

Spec == Init /\ [][Next]_vars

SpecArgs == InitArgs /\ [][Next]_vars

SpecAlone == InitAlone /\ [][Next]_vars

SpecLoad == InitLoad /\ [][Next]_vars

SpecSat == InitSat /\ [][Next]_vars

SpecBad == InitBad /\ [][Next]_vars

SpecIso == InitIso /\ [][Next]_vars

SpecPair == InitPair /\ [][Next]_vars

\* --------------------------------------------------------- route handlers
\* request/add-event.ts, request/get-events-by-user-id.ts and
\* services/api-middleware.ts: what a handler does with one request is a
\* function of the request and of what the external service answers.

\* the variables of the queue, which no route handler step changes
queue == <<numberOfCalls, numberOfFailures, currentActiveCalls, calls, qOf,
           pc, index, cargs, delay, isFull, doomed, lastError, future, value,
           attempts, failed, work, nCalls, nArgs, nFails, nBad, nQueues>>

OK_FIRST == 200
OK_LAST == 299
STATUS_BAD_REQUEST == 400
STATUS_NOT_FOUND == 404
STATUS_TIMEOUT == 408
STATUS_INTERNAL == 500
STATUS_UNAVAILABLE == 503

\* statuses the external service answers with
Statuses == {OK_FIRST, OK_LAST, STATUS_BAD_REQUEST, STATUS_NOT_FOUND,
             STATUS_TIMEOUT, STATUS_INTERNAL, STATUS_UNAVAILABLE}

\* Response.ok
IsOk(status) == status >= OK_FIRST /\ status <= OK_LAST

\* how a fetch ends: with a response, or rejecting with "fetch failed",
\* with another Error, or with a value that is not an Error
FetchOutcomes == {"answered", "fetch failed", "aborted", "thrown value"}

\* bodies of the answer to POST /addEvent: not JSON, JSON without a
\* success field, success false, success true
AddEventBodies == {"unparseable", "no success", "success false", "success true"}

NoError == [kind |-> "none", statusCode |-> 0, code |-> "", message |-> ""]

\* new ApiError(message, statusCode, code)
ApiError(message, statusCode, code) ==
    [kind |-> "ApiError", statusCode |-> statusCode, code |-> code,
     message |-> message]

createNotFoundError(resource) ==
    ApiError(resource \o " not found", STATUS_NOT_FOUND, "NOT_FOUND")

createBadRequestError(message) ==
    ApiError(message, STATUS_BAD_REQUEST, "BAD_REQUEST")

createInternalServerError(message) ==
    ApiError(message, STATUS_INTERNAL, "INTERNAL_SERVER_ERROR")

createServiceUnavailableError(message) ==
    ApiError(message, STATUS_UNAVAILABLE, "SERVICE_UNAVAILABLE")

\* what a rejected fetch or a failed resp.json() throws: no statusCode
PlainError(message) ==
    [kind |-> IF message = "thrown value" THEN "value" ELSE "Error",
     statusCode |-> 0, code |-> "", message |-> message]

\* error.message.includes('fetch')
MentionsFetch(message) == message = "fetch failed"

\* error instanceof Error && error.statusCode
IsCustomError(e) == e.kind \in {"ApiError", "Error"} /\ e.statusCode # 0

\* a try block that sends the parsed body before looking at it
addEventTrySendingFirst(in) ==
    IF in.net # "answered"
    THEN [sent |-> <<>>, thrown |-> PlainError(in.net)]
    ELSE IF ~IsOk(in.status)
    THEN [sent |-> <<>>, thrown |->
            IF in.status >= STATUS_INTERNAL
            THEN createServiceUnavailableError("External event service is unavailable")
            ELSE IF in.status = STATUS_BAD_REQUEST
            THEN createBadRequestError("Invalid event data provided")
            ELSE IF in.status = STATUS_TIMEOUT
            THEN createInternalServerError("Request to event service timed out")
            ELSE createInternalServerError("Event service responded with an error status")]
    ELSE IF in.body = "unparseable"
    THEN [sent |-> <<>>, thrown |-> PlainError("Unexpected token")]
    ELSE IF in.body \in {"success false", "success true"}
    THEN IF in.body = "success false"
         THEN [sent |-> <<in.body>>,
               thrown |-> createBadRequestError("Failed to create event")]
         ELSE [sent |-> <<in.body>>, thrown |-> NoError]
    ELSE [sent |-> <<in.body>>, thrown |->
            createInternalServerError("Invalid response format from event service")]

\* the try block of addEventHandler: the replies sent and the error thrown
addEventTry(in) ==
    IF in.net # "answered"
    THEN [sent |-> <<>>, thrown |-> PlainError(in.net)]
    ELSE IF ~IsOk(in.status)
    THEN [sent |-> <<>>, thrown |->
            IF in.status >= STATUS_INTERNAL
            THEN createServiceUnavailableError("External event service is unavailable")
            ELSE IF in.status = STATUS_BAD_REQUEST
            THEN createBadRequestError("Invalid event data provided")
            ELSE IF in.status = STATUS_TIMEOUT
            THEN createInternalServerError("Request to event service timed out")
            ELSE createInternalServerError("Event service responded with an error status")]
    ELSE IF in.body = "unparseable"
    THEN [sent |-> <<>>, thrown |-> PlainError("Unexpected token")]
    ELSE IF in.body \in {"success false", "success true"}
    THEN IF in.body = "success false"
         THEN [sent |-> <<>>,
               thrown |-> createBadRequestError("Failed to create event")]
         ELSE [sent |-> <<in.body>>, thrown |-> NoError]
    ELSE [sent |-> <<>>, thrown |->
            createInternalServerError("Invalid response format from event service")]

\* the catch block of addEventHandler
addEventCatch(e) ==
    IF IsCustomError(e) THEN e
    ELSE IF e.kind = "Error"
    THEN IF MentionsFetch(e.message)
         THEN createServiceUnavailableError("Unable to connect to event service")
         ELSE createInternalServerError("Event creation failed")
    ELSE createInternalServerError("Unknown error occurred while creating event")

addEventHandler(in) ==
    LET r == addEventTry(in) IN
    IF r.thrown.kind = "none" THEN r
    ELSE [sent |-> r.sent, thrown |-> addEventCatch(r.thrown)]

\* errors that reach the error middleware: statusCode 0 stands for an
\* error without one
ErrorsRaised ==
    [kind : {"Error"},
     statusCode : {0, STATUS_BAD_REQUEST, STATUS_NOT_FOUND, STATUS_INTERNAL,
                   STATUS_UNAVAILABLE},
     code : {"", "NOT_FOUND"},
     message : {"", "boom"},
     validation : BOOLEAN]

Urls == {"/addEvent", "/getEventsByUserId/7"}

\* an error response that always reports an internal error
createErrorResponseInternal(error, url) ==
    [error |-> [message |-> IF error.message = ""
                            THEN "Internal Server Error" ELSE error.message,
                code |-> error.code,
                statusCode |-> STATUS_INTERNAL],
     timestamp |-> "now",
     path |-> url]

createErrorResponse(error, url) ==
    [error |-> [message |-> IF error.message = ""
                            THEN "Internal Server Error" ELSE error.message,
                code |-> error.code,
                statusCode |-> IF error.statusCode = 0
                               THEN STATUS_INTERNAL ELSE error.statusCode],
     timestamp |-> "now",
     path |-> url]

\* reply.status(statusCode).send(errorResponse)
errorHandler(error, url) ==
    LET errorResponse == createErrorResponse(error, url) IN
    [status |-> errorResponse.error.statusCode, body |-> errorResponse]

\* the handler registered with setErrorHandler
validationErrorHandler(error, url) ==
    IF error.validation
    THEN [status |-> STATUS_BAD_REQUEST,
          body |-> [error |-> [message |-> "Validation failed",
                               code |-> "VALIDATION_ERROR",
                               statusCode |-> STATUS_BAD_REQUEST],
                    timestamp |-> "now",
                    path |-> url]]
    ELSE errorHandler(error, url)

\* POST /addEvent is handled
HandleAddEvent ==
    /\ http = NoRequest
    /\ \E net \in FetchOutcomes, status \in Statuses, body \in AddEventBodies :
          LET in == [net |-> net, status |-> status, body |-> body] IN
          http' = [op |-> "addEvent", in |-> in, out |-> addEventHandler(in)]
    /\ UNCHANGED queue

\* an error thrown while a request for url was handled reaches the
\* error handler
HandleError ==
    /\ http = NoRequest
    /\ \E error \in ErrorsRaised, url \in Urls :
          http' = [op |-> "error", in |-> [error |-> error, url |-> url],
                   out |-> validationErrorHandler(error, url)]
    /\ UNCHANGED queue

\* characters of the :id parameter: a digit, a letter, a blank
IdChars == {"7", "x", " "}

RECURSIVE SeqsUpTo(_, _)
SeqsUpTo(S, n) ==
    IF n = 0 THEN {<<>>}
    ELSE LET shorter == SeqsUpTo(S, n - 1)
         IN shorter \cup {Append(t, x) : t \in shorter, x \in S}

Ids == SeqsUpTo(IdChars, MaxIdLen)

\* Number(id) skips blanks at both ends
RECURSIVE Trim(_)
Trim(id) ==
    IF id = <<>> THEN id
    ELSE IF Head(id) = " " THEN Trim(Tail(id))
    ELSE IF id[Len(id)] = " " THEN Trim(SubSeq(id, 1, Len(id) - 1))
    ELSE id

\* isNaN(Number(id)): the empty string and blanks convert to 0, digits to
\* their value, anything else to NaN
IsNaNNumber(id) == \E i \in 1..Len(Trim(id)) : Trim(id)[i] # "7"

\* a validation that only rejects the missing id
IsInvalidIdWhenEmpty(id) == id = <<>>

\* !id || isNaN(Number(id))
IsInvalidId(id) == id = <<>> \/ IsNaNNumber(id)

EventIds == 1..MaxEvents

\* bodies of the answer to getUserById: not JSON, JSON without an events
\* list, or a user with a list of event ids
UserBodies ==
    {[kind |-> k, events |-> <<>>] : k \in {"unparseable", "no events"}}
        \cup {[kind |-> "user", events |-> l] :
                  l \in SeqsUpTo(EventIds, MaxEvents)}

\* answers to getEventById: the event, status 404, an error status with a
\* JSON body, a body that is not JSON, or no answer at all
EventAnswers == {"found", "not found", "error body", "unparseable",
                 "fetch failed"}

\* the response sent when every event is reported found, whatever the
\* lookups said
eventsResponseBare(eventArray, failedEvents) ==
    [kind |-> "array", events |-> eventArray,
     missingEvents |-> <<>>, count |-> 0]

\* lines 58-69: the bare array, or the events with the warnings
eventsResponse(eventArray, failedEvents) ==
    IF Len(failedEvents) = 0
    THEN [kind |-> "array", events |-> eventArray,
          missingEvents |-> <<>>, count |-> 0]
    ELSE [kind |-> "object", events |-> eventArray,
          missingEvents |-> failedEvents, count |-> Len(failedEvents)]

\* the loop of lines 38-54 from position i on; acc holds eventArray,
\* failedEvents, the ids fetched so far and the error thrown
RECURSIVE fetchEvents(_, _, _, _)
fetchEvents(userEvents, lookup, i, acc) ==
    IF i > Len(userEvents) THEN acc
    ELSE LET eventId == userEvents[i]
             fetched == Append(acc.fetched, eventId)
         IN
         IF lookup[eventId] \in {"fetch failed", "unparseable"}
         THEN [acc EXCEPT !.fetched = fetched,
                          !.thrown = createInternalServerError("Failed to fetch event")]
         ELSE IF lookup[eventId] = "not found"
         THEN fetchEvents(userEvents, lookup, i + 1,
                  [acc EXCEPT !.fetched = fetched,
                              !.failedEvents = Append(@, eventId)])
         ELSE fetchEvents(userEvents, lookup, i + 1,
                  [acc EXCEPT !.fetched = fetched,
                              !.eventArray =
                                  Append(@, [id |-> eventId,
                                             data |-> lookup[eventId]])])

\* the outcome of a request: whether the user was fetched, the event ids
\* fetched, the replies sent and the error thrown
Outcome(userFetched, fetched, sent, thrown) ==
    [userFetched |-> userFetched, fetched |-> fetched, sent |-> sent,
     thrown |-> thrown]

\* the try block of getEventsByUserIdHandler
getEventsTry(in) ==
    IF in.net # "answered"
    THEN Outcome(TRUE, <<>>, <<>>, PlainError(in.net))
    ELSE IF ~IsOk(in.status)
    THEN Outcome(TRUE, <<>>, <<>>,
                 IF in.status = STATUS_NOT_FOUND
                 THEN createNotFoundError("User")
                 ELSE createInternalServerError("Failed to fetch user data"))
    ELSE IF in.body.kind = "unparseable"
    THEN Outcome(TRUE, <<>>, <<>>, PlainError("Unexpected token"))
    ELSE IF in.body.kind = "no events"
    THEN Outcome(TRUE, <<>>, <<>>, PlainError("Cannot read properties of undefined"))
    ELSE LET r == fetchEvents(in.body.events, in.lookup, 1,
                      [eventArray |-> <<>>, failedEvents |-> <<>>,
                       fetched |-> <<>>, thrown |-> NoError])
         IN IF r.thrown.kind # "none"
            THEN Outcome(TRUE, r.fetched, <<>>, r.thrown)
            ELSE Outcome(TRUE, r.fetched,
                         <<eventsResponse(r.eventArray, r.failedEvents)>>,
                         NoError)

\* the catch block of getEventsByUserIdHandler
getEventsCatch(e) ==
    IF IsCustomError(e) THEN e
    ELSE createInternalServerError("Failed to fetch user events")

getEventsByUserIdHandler(in) ==
    IF IsInvalidId(in.id)
    THEN Outcome(FALSE, <<>>, <<>>, createNotFoundError("User"))
    ELSE LET r == getEventsTry(in) IN
         IF r.thrown.kind = "none" THEN r
         ELSE [r EXCEPT !.thrown = getEventsCatch(r.thrown)]

\* GET /getEventsByUserId/:id is handled
HandleGetEventsByUserId ==
    /\ http = NoRequest
    /\ \E id \in Ids, net \in {"answered", "fetch failed"},
          status \in {OK_FIRST, STATUS_NOT_FOUND, STATUS_INTERNAL},
          body \in UserBodies, lookup \in [EventIds -> EventAnswers] :
          LET in == [id |-> id, net |-> net, status |-> status,
                     body |-> body, lookup |-> lookup]
          IN http' = [op |-> "getEventsByUserId", in |-> in,
                      out |-> getEventsByUserIdHandler(in)]
    /\ UNCHANGED queue

\* the server handles one request
NextHttp ==
    \/ HandleAddEvent
    \/ HandleGetEventsByUserId
    \/ HandleError

InitHttp == InitState("flaky", 1, 1, 0, 0, 1)

SpecHttp == InitHttp /\ [][NextHttp]_vars

\* ------------------------------------------------------------ state views
Unsettled(c) == pc[c] \in {"timer", "running"}
Quiescent == \A c \in Callers : pc[c] \in {"done", "crashed", "exhausted"}

\* ----------------------------------------------------------------- claims

\* C1: in the load scenario (all calls issued at once, the unit of work
\* fails an attempt started while more than THROTTLE_LIMIT are in flight)
\* every caller's promise resolves: once nothing is left to run, no promise
\* is still pending.
C1_AllCallsResolve ==
    (work = "throttle" /\ Quiescent) =>
        \A c \in Callers : future[c] = "resolved"

\* C2: at most MAX_ACTIVE_CALLS attempts are in flight at any time, and the
\* active set never holds more than MAX_ACTIVE_CALLS indices.
C2_AtMostMaxActive ==
    /\ Cardinality(InFlight) <= MAX_ACTIVE_CALLS
    /\ \A q \in Queues :
           Cardinality(currentActiveCalls[q]) <= MAX_ACTIVE_CALLS

\* C3: a call that ran out of retries has its promise rejected; it is not
\* left pending.
C3_ExhaustionRejects ==
    \A c \in Callers : pc[c] = "exhausted" => future[c] = "rejected"

\* C4: a call is attempted at most MAX_RETRIES_PER_DAY + 1 times, and a call
\* that ran out of retries was attempted exactly that often.
C4_RetryCap ==
    \A c \in Callers :
        /\ attempts[c] <= MAX_RETRIES_PER_DAY + 1
        /\ pc[c] = "exhausted" => attempts[c] = MAX_RETRIES_PER_DAY + 1

\* C5: a failed attempt that is retried leaves the caller's promise pending:
\* the step that counts the failure and re-arms the timer does not settle
\* the promise, and the promise of a call that waits or runs is pending.
C5_TransientFailureInvisible ==
    [][\A c \in Callers :
          /\ Unsettled(c) => future[c] = "pending"
          /\ (failed'[c] > failed[c] /\ pc'[c] = "timer") =>
                 (future[c] = "pending" /\ future'[c] = "pending")]_vars

C5_Witness ==
    \E c \in Callers :
        failed[c] > 0 /\ pc[c] = "timer" /\ future[c] = "pending"

\* C6: a promise is resolved only in the step in which an attempt of its own
\* call returned successfully, and with the result of the caller's own
\* arguments, also while another unsettled call holds the same index.
C6_OwnResultOnly ==
    [][\A c \in Callers :
          (future'[c] = "resolved" /\ future[c] # "resolved") =>
              /\ pc[c] = "running" /\ MaySucceed(c)
              /\ pc'[c] = "settling"
              /\ value'[c] = Result(cargs[c])]_vars

C6_Witness ==
    \E c, d \in Callers :
        /\ c # d /\ index[c] = index[d] /\ cargs[c] # cargs[d]
        /\ Unsettled(d)
        /\ pc[c] = "settling" /\ future[c] = "resolved"
        /\ value[c] = Result(cargs[c])

\* the power of two 2^e that a backoff value is, for e in 0..BACKOFF_CAP
IsBackoffTier(b) == \E e \in 0..BACKOFF_CAP : b = <<2 ^ e, 1>>

\* C7: every wait is armed with 2^min(numberOfFailures, 3), plus 100 when
\* the active set is full, taken from the state in which it is armed; the
\* backoff is one of 1, 2, 4, 8 and the delay is at most 108.
C7_BackoffDelay ==
    [][\A c \in Callers :
          (pc'[c] = "timer" /\ pc[c] # "timer") =>
              LET b == backOff(numberOfFailures'[qOf[c]])
                  full == areActiveCallsFull(currentActiveCalls'[qOf[c]])
              IN /\ delay'[c] = TimeoutDelay(full, b)
                 /\ IsBackoffTier(b)
                 /\ delay'[c][2] = 1
                 /\ delay'[c][1] <= 8 + SATURATION_PENALTY]_vars

C9_FailsThenSucceeds ==
    (work = "flaky" /\ nCalls = 1) =>
        /\ pc[1] = "timer" =>
              delay[1] = <<2 ^ (IF failed[1] > 3 THEN 3 ELSE failed[1]), 1>>
        /\ pc[1] \in {"timer", "idle"} => attempts[1] = failed[1]
        /\ pc[1] = "running" => attempts[1] = failed[1] + 1
        /\ pc[1] \in {"settling", "done"} =>
              /\ attempts[1] = failed[1] + 1
              /\ future[1] = "resolved"
              /\ value[1] = Result(cargs[1])
        /\ pc[1] \notin {"crashed", "exhausted"}

C9_Witness ==
    /\ work = "flaky" /\ nCalls = 1
    /\ pc[1] = "done" /\ failed[1] = 2 /\ attempts[1] = 3
    /\ future[1] = "resolved"

\* C10: numberOfFailures is decremented on the success of a call only if
\* that call itself had a failed attempt before.
C10_DecrementOnlyAfterOwnFailure ==
    [][\A c \in Callers :
          (pc[c] = "settling" /\ pc'[c] # "settling"
              /\ numberOfFailures'[qOf[c]] < numberOfFailures[qOf[c]]) =>
              failed[c] > 0]_vars

\* C11: whenever a call that had at least one failed attempt succeeds, the
\* continuation that follows its success decrements numberOfFailures of
\* its queue by exactly 1.
C11_RecoveryDecrement ==
    [][\A c \in Callers :
          (pc[c] = "settling" /\ pc'[c] # "settling" /\ failed[c] > 0) =>
              numberOfFailures'[qOf[c]] = numberOfFailures[qOf[c]] - 1]_vars

\* C12: numberOfFailures is never negative.
C12_FailureCountNonNegative ==
    \A q \in Queues : numberOfFailures[q] >= 0

\* every call submitted so far has succeeded and finished its continuation
AllSucceeded == \A c \in Callers : pc[c] \in {"idle", "done"}

\* C13: once every submitted call has succeeded and nothing is pending,
\* numberOfFailures is back to 0, and a call submitted on such a queue is
\* armed with the base backoff 2^0.
C13_FailureSignalDecays ==
    /\ AllSucceeded => \A q \in Queues : numberOfFailures[q] = 0
    /\ \A c \in Callers :
          (/\ pc[c] = "timer" /\ attempts[c] = 0
           /\ \A d \in Callers \ {c} : pc[d] \in {"idle", "done"}) =>
              delay[c] = TimeoutDelay(isFull[c], Pow2(0))

\* C14: a submitted call that has neither succeeded nor exhausted its
\* retries always has a pending timer or an attempt in flight.
C14_LifecycleClosed ==
    \A c \in Callers :
        (pc[c] # "idle" /\ future[c] # "resolved" /\ pc[c] # "exhausted") =>
            pc[c] \in {"timer", "running"}

\* C15: after an attempt of a call has succeeded no further attempt of
\* that call is started: its chain of continuations only finishes, and a
\* resolved call has had exactly one successful execution (all its other
\* attempts failed).
C15_ExactlyOnceSuccess ==
    [][\A c \in Callers :
          /\ future[c] = "resolved" =>
                /\ attempts'[c] = attempts[c]
                /\ failed'[c] = failed[c]
                /\ pc'[c] \in {"settling", "done", "crashed"}
          /\ future'[c] = "resolved" => attempts'[c] = failed'[c] + 1]_vars

C15_Witness ==
    \E c, d \in Callers :
        /\ c # d
        /\ pc[c] = "done" /\ future[c] = "resolved" /\ failed[c] > 0
        /\ Unsettled(d) /\ index[d] = index[c] /\ attempts[d] > 0

\* C18: two distinct calls of one queue whose promises are still pending
\* never hold the same index.
C18_UniqueLiveIndex ==
    \A c, d \in Callers :
        (c # d /\ qOf[c] = qOf[d] /\ Unsettled(c) /\ Unsettled(d)) =>
            index[c] # index[d]

\* C19: the retries field of every call record is at most
\* MAX_RETRIES_PER_DAY.
C19_RetryCountBounded ==
    \A q \in Queues : \A i \in DOMAIN calls[q] :
        calls[q][i].retries <= MAX_RETRIES_PER_DAY

\* C20: currentActiveCalls holds exactly the indices of the attempts in
\* flight; the index of a call that waits for its timer is not in it.
C20_ActiveIsInFlight ==
    \A q \in Queues :
        currentActiveCalls[q] = {index[c] : c \in {d \in InFlight : qOf[d] = q}}

\* the fields of the QueryState of wrapped function q
QueryState(q) ==
    <<numberOfCalls[q], numberOfFailures[q], currentActiveCalls[q], calls[q]>>

\* C16: every wrapped function starts with its own state (0, 0, empty,
\* empty); the invocations of one wrapped function all work on that state
\* (a submission takes its index from it and stores its record in it), and
\* a step of a call of one wrapped function leaves the state of every other
\* wrapped function unchanged.
C16_StateIsolation ==
    [][/\ (\A c \in Callers : pc[c] = "idle") =>
              \A q \in Queues : QueryState(q) = <<0, 0, {}, <<>> >>
       /\ \A c \in Callers :
             pc'[c] # pc[c] =>
                 /\ \A q \in Queues \ {qOf[c]} : QueryState(q)' = QueryState(q)
                 /\ pc[c] = "idle" =>
                       /\ index'[c] = numberOfCalls[qOf[c]]
                       /\ numberOfCalls'[qOf[c]] = numberOfCalls[qOf[c]] + 1
                       /\ index'[c] \in DOMAIN calls'[qOf[c]]
                       /\ calls'[qOf[c]][index'[c]].args = cargs'[c]]_vars

C16_Witness ==
    \E c, d \in Callers :
        /\ qOf[c] # qOf[d]
        /\ index[c] = index[d]
        /\ pc[c] = "timer" /\ failed[c] = 1 /\ pc[d] = "running"
        /\ numberOfFailures[qOf[c]] = 1 /\ numberOfFailures[qOf[d]] = 0
        /\ currentActiveCalls[qOf[d]] = {index[d]}
        /\ \E e \in Callers \ {c} : qOf[e] = qOf[c] /\ pc[e] # "idle"

\* C17: what follows a failed attempt depends on the retry count of the
\* call and not on the error thrown: whether the service was unavailable
\* or answered 400 to a bad request, the failure is counted and the timer
\* armed again while the stored count is within MAX_RETRIES_PER_DAY, and
\* the call is given up only beyond it.
C17_UniformFailureHandling ==
    [][\A c \in Callers :
          failed'[c] > failed[c] =>
              /\ lastError'[c] \in {"BAD_REQUEST", "SERVICE_UNAVAILABLE"}
              /\ LET q == qOf[c]
                     i == index[c]
                 IN i \in DOMAIN calls[q] =>
                       IF calls[q][i].retries <= MAX_RETRIES_PER_DAY
                       THEN /\ pc'[c] = "timer"
                            /\ calls'[q][i].retries = calls[q][i].retries + 1
                            /\ numberOfFailures'[q] = numberOfFailures[q] + 1
                            /\ future'[c] = future[c]
                       ELSE /\ pc'[c] = "exhausted"
                            /\ failed'[c] > MAX_RETRIES_PER_DAY]_vars

C17_Witness ==
    \E c \in Callers :
        /\ cargs[c] = BadArg /\ lastError[c] = "BAD_REQUEST"
        /\ pc[c] = "exhausted" /\ failed[c] > MAX_RETRIES_PER_DAY

\* C21: every failed attempt increments numberOfFailures of its queue by
\* exactly 1 and the retries of the failing call's record by exactly 1,
\* the failed attempt that ends in exhaustion included.
C21_FailureIncrements ==
    [][\A c \in Callers :
          (failed'[c] > failed[c] /\ index[c] \in DOMAIN calls[qOf[c]]) =>
              /\ numberOfFailures'[qOf[c]] = numberOfFailures[qOf[c]] + 1
              /\ index[c] \in DOMAIN calls'[qOf[c]]
              /\ calls'[qOf[c]][index[c]].retries =
                     calls[qOf[c]][index[c]].retries + 1]_vars

\* C22: a failed attempt of a call that has not failed more than
\* MAX_RETRIES_PER_DAY times arms the timer of the next attempt, whatever
\* the other calls of the queue have done.
C22_TransientAlwaysRetried ==
    [][\A c \in Callers :
          (failed'[c] > failed[c] /\ failed'[c] <= MAX_RETRIES_PER_DAY) =>
              pc'[c] = "timer"]_vars

\* C23: the updates of one successful attempt are a single step: while a
\* call is between `resolve` and the numberOfFailures test no other call
\* takes a step and the state of the queue is not touched.
C23_AtomicSuccessUpdate ==
    [][\A c \in Callers :
          (pc[c] = "settling" /\ pc'[c] = "settling") =>
              /\ \A d \in Callers : pc'[d] = pc[d]
              /\ QueryState(qOf[c])' = QueryState(qOf[c])]_vars

\* C24: a submission takes the value of numberOfCalls as its index, stores
\* a record with retries 0 and its arguments at that index, increments
\* numberOfCalls by 1, arms the first timer with the delay computed from
\* the queue state and leaves a pending promise; numberOfFailures and
\* currentActiveCalls are unchanged.
C24_SubmissionEffect ==
    [][\A c \in Callers :
          (pc[c] = "idle" /\ pc'[c] # "idle") =>
              LET q == qOf[c] IN
              /\ index'[c] = numberOfCalls[q]
              /\ DOMAIN calls'[q] = (DOMAIN calls[q]) \cup {index'[c]}
              /\ calls'[q][index'[c]] = [args |-> cargs'[c], retries |-> 0]
              /\ \A i \in (DOMAIN calls[q]) \ {index'[c]} :
                    calls'[q][i] = calls[q][i]
              /\ numberOfCalls'[q] = numberOfCalls[q] + 1
              /\ pc'[c] = "timer"
              /\ attempts'[c] = 0
              /\ delay'[c] =
                    TimeoutDelay(areActiveCallsFull(currentActiveCalls[q]),
                                 backOff(numberOfFailures[q]))
              /\ future[c] = "none" /\ future'[c] = "pending"
              /\ numberOfFailures' = numberOfFailures
              /\ currentActiveCalls' = currentActiveCalls]_vars

C24_Witness ==
    \E c \in Callers :
        /\ pc[c] = "timer" /\ attempts[c] = 0 /\ future[c] = "pending"
        /\ index[c] > 0
        /\ numberOfCalls[qOf[c]] = index[c] + 1
        /\ numberOfFailures[qOf[c]] = 2 /\ delay[c] = <<4, 1>>
        /\ currentActiveCalls[qOf[c]] # {}

\* C25: the failure handling of a call whose stored count exceeds
\* MAX_RETRIES_PER_DAY removes the record of the call's index from calls
\* and the index from currentActiveCalls, and the call has no timer and
\* no attempt ever after.
C25_ExhaustionCleansUp ==
    [][\A c \in Callers :
          /\ (pc'[c] = "exhausted" /\ pc[c] # "exhausted") =>
                /\ pc[c] = "running"
                /\ calls[qOf[c]][index[c]].retries > MAX_RETRIES_PER_DAY
                /\ index[c] \notin DOMAIN calls'[qOf[c]]
                /\ index[c] \notin currentActiveCalls'[qOf[c]]
          /\ pc[c] = "exhausted" =>
                /\ pc'[c] = "exhausted"
                /\ attempts'[c] = attempts[c]
                /\ delay'[c] = NoDelay]_vars

C25_Witness ==
    \E c, d \in Callers :
        /\ pc[c] = "exhausted" /\ index[c] \notin DOMAIN calls[qOf[c]]
        /\ qOf[d] = qOf[c] /\ pc[d] = "running"
        /\ currentActiveCalls[qOf[c]] = {index[d]}

\* C26: a successful attempt removes the index of the call from
\* currentActiveCalls, decrements numberOfCalls by 1 and leaves calls as
\* it is, as does the continuation that follows it; an index leaves calls
\* only in the step in which a call holding it exhausts its retries.
C26_SuccessKeepsRecord ==
    [][/\ \A c \in Callers :
             (future'[c] = "resolved" /\ future[c] # "resolved") =>
                 /\ currentActiveCalls'[qOf[c]] =
                        currentActiveCalls[qOf[c]] \ {index[c]}
                 /\ numberOfCalls'[qOf[c]] = numberOfCalls[qOf[c]] - 1
                 /\ calls' = calls
       /\ \A c \in Callers :
             (pc[c] = "settling" /\ pc'[c] # "settling") => calls' = calls
       /\ \A q \in Queues :
             \A i \in (DOMAIN calls[q]) \ (DOMAIN calls'[q]) :
                 \E c \in Callers :
                     /\ qOf[c] = q /\ index[c] = i
                     /\ pc[c] # "exhausted" /\ pc'[c] = "exhausted"]_vars

C26_Witness ==
    \E c, d \in Callers :
        /\ qOf[c] = qOf[d]
        /\ pc[c] = "done" /\ cargs[c] # BadArg
        /\ index[d] = index[c] /\ pc[d] = "timer" /\ cargs[d] = BadArg
        /\ calls[qOf[c]][index[c]].args = BadArg

\* calls of queue q submitted so far, and those among them that succeeded
Submitted(q) == {c \in Callers : qOf[c] = q /\ pc[c] # "idle"}

Succeeded(q) == {c \in Callers : qOf[c] = q /\ future[c] = "resolved"}

\* C30: numberOfCalls is the number of calls submitted minus the number of
\* calls that succeeded (an exhausted call is not subtracted), hence never
\* negative.
C30_CallCountAccounting ==
    \A q \in Queues :
        /\ numberOfCalls[q] =
               Cardinality(Submitted(q)) - Cardinality(Succeeded(q))
        /\ numberOfCalls[q] >= 0

C30_Witness ==
    \E c, d \in Callers :
        /\ qOf[c] = qOf[d]
        /\ pc[c] = "exhausted" /\ pc[d] = "done"
        /\ numberOfCalls[qOf[c]] = 1

C28_AttemptAfterBackoffWait ==
    [][\A c \in Callers :
          /\ attempts'[c] # attempts[c] =>
                /\ attempts'[c] = attempts[c] + 1
                /\ pc[c] = "timer" /\ pc'[c] = "running"
                /\ delay[c][1] >= delay[c][2]
          /\ (pc'[c] = "timer" /\ pc[c] # "timer") =>
                /\ attempts'[c] = attempts[c]
                /\ pc[c] \in {"idle", "running"}]_vars

\* C29: a call takes the exhaustion path only after more than
\* MAX_RETRIES_PER_DAY failed attempts of its own.
C29_ExhaustionCountsOwnFailures ==
    \A c \in Callers :
        pc[c] = "exhausted" => failed[c] > MAX_RETRIES_PER_DAY

\* C31: the index of every call with an attempt in flight is in
\* currentActiveCalls of its queue.
C31_InFlightIsActive ==
    \A c \in InFlight : index[c] \in currentActiveCalls[qOf[c]]

\* timers the call has armed that have not fired, and attempts it has
\* started that have not completed
PendingTimers(c) == IF delay[c] # NoDelay THEN 1 ELSE 0

AttemptsInFlight(c) ==
    attempts[c] - failed[c] - (IF future[c] = "resolved" THEN 1 ELSE 0)

\* C32: a call never has more than one outstanding activity, and a call
\* whose promise is not settled has exactly one: a pending timer or an
\* attempt in flight.
C32_OneOutstandingActivity ==
    \A c \in Callers :
        /\ PendingTimers(c) + AttemptsInFlight(c) \in {0, 1}
        /\ future[c] = "pending" =>
              PendingTimers(c) + AttemptsInFlight(c) = 1

C34_AddEventReply ==
    http.op = "addEvent" =>
        LET in == http.in
            out == http.out
            accepted == /\ in.net = "answered" /\ IsOk(in.status)
                        /\ in.body = "success true"
            expected ==
                CASE in.net = "fetch failed" -> STATUS_UNAVAILABLE
                  [] in.net \in {"aborted", "thrown value"} -> STATUS_INTERNAL
                  [] in.status >= STATUS_INTERNAL -> STATUS_UNAVAILABLE
                  [] in.status = STATUS_BAD_REQUEST -> STATUS_BAD_REQUEST
                  [] ~IsOk(in.status) -> STATUS_INTERNAL
                  [] in.body = "success false" -> STATUS_BAD_REQUEST
                  [] OTHER -> STATUS_INTERNAL
        IN IF accepted
           THEN out.sent = <<in.body>> /\ out.thrown.kind = "none"
           ELSE /\ out.sent = <<>>
                /\ out.thrown.kind = "ApiError"
                /\ out.thrown.statusCode = expected

C34_Witness ==
    /\ http.op = "addEvent"
    /\ http.in.net = "answered" /\ http.in.status = OK_FIRST
    /\ http.in.body = "success false"
    /\ http.out.sent = <<>>
    /\ http.out.thrown.statusCode = STATUS_BAD_REQUEST

\* what the user lookup of a request leaves the handler with
UserUnusable(in) ==
    in.net # "answered" \/ ~IsOk(in.status) \/ in.body.kind # "user"

\* the ids fetched are the first ids of the user's list, in its order
FetchedInOrder(in, out) ==
    /\ Len(out.fetched) <= Len(in.body.events)
    /\ out.fetched = SubSeq(in.body.events, 1, Len(out.fetched))

\* C35 as stated: an empty or non-numeric id is rejected with 404
\* NOT_FOUND before the service is contacted; a numeric id fails with 500
\* 'Failed to fetch user events' when the user data cannot be used and
\* otherwise has the user's events fetched in order.
C35_AsStated ==
    http.op = "getEventsByUserId" =>
        LET in == http.in
            out == http.out
        IN IF in.id = <<>> \/ IsNaNNumber(in.id)
           THEN /\ ~out.userFetched /\ out.fetched = <<>>
                /\ out.thrown.statusCode = STATUS_NOT_FOUND
                /\ out.thrown.code = "NOT_FOUND"
           ELSE IF UserUnusable(in)
           THEN /\ out.thrown.statusCode = STATUS_INTERNAL
                /\ out.thrown.message = "Failed to fetch user events"
           ELSE FetchedInOrder(in, out)

\* C35: an empty or non-numeric id is rejected with 404 NOT_FOUND
\* before the service is contacted. For any other id the user is looked
\* up: status 404 gives 404 NOT_FOUND, another status that is not ok gives
\* 500 'Failed to fetch user data', a failed fetch or a body without a
\* usable events list gives 500 'Failed to fetch user events'; otherwise
\* the events are fetched in the order of the list, up to the first lookup
\* that fails or cannot be parsed, which gives 500 'Failed to fetch event'.
C35_IdAndUserLookup ==
    http.op = "getEventsByUserId" =>
        LET in == http.in
            out == http.out
        IN IF in.id = <<>> \/ IsNaNNumber(in.id)
           THEN /\ ~out.userFetched /\ out.fetched = <<>> /\ out.sent = <<>>
                /\ out.thrown.statusCode = STATUS_NOT_FOUND
                /\ out.thrown.code = "NOT_FOUND"
           ELSE /\ out.userFetched
                /\ IF in.net # "answered"
                   THEN /\ out.fetched = <<>> /\ out.sent = <<>>
                        /\ out.thrown.statusCode = STATUS_INTERNAL
                        /\ out.thrown.message = "Failed to fetch user events"
                   ELSE IF in.status = STATUS_NOT_FOUND
                   THEN /\ out.fetched = <<>> /\ out.sent = <<>>
                        /\ out.thrown.statusCode = STATUS_NOT_FOUND
                        /\ out.thrown.code = "NOT_FOUND"
                   ELSE IF ~IsOk(in.status)
                   THEN /\ out.fetched = <<>> /\ out.sent = <<>>
                        /\ out.thrown.statusCode = STATUS_INTERNAL
                        /\ out.thrown.message = "Failed to fetch user data"
                   ELSE IF in.body.kind # "user"
                   THEN /\ out.fetched = <<>> /\ out.sent = <<>>
                        /\ out.thrown.statusCode = STATUS_INTERNAL
                        /\ out.thrown.message = "Failed to fetch user events"
                   ELSE /\ FetchedInOrder(in, out)
                        /\ IF \E i \in 1..Len(in.body.events) :
                                  in.lookup[in.body.events[i]]
                                      \in {"fetch failed", "unparseable"}
                           THEN /\ out.sent = <<>>
                                /\ out.thrown.statusCode = STATUS_INTERNAL
                                /\ out.thrown.message = "Failed to fetch event"
                                /\ in.lookup[out.fetched[Len(out.fetched)]]
                                       \in {"fetch failed", "unparseable"}
                           ELSE /\ out.fetched = in.body.events
                                /\ Len(out.sent) = 1
                                /\ out.thrown.kind = "none"

C35_Witness ==
    /\ http.op = "getEventsByUserId"
    /\ http.in.id = <<" ", "7">>
    /\ http.in.net = "answered" /\ http.in.status = STATUS_NOT_FOUND
    /\ http.out.userFetched
    /\ http.out.thrown.statusCode = STATUS_NOT_FOUND

\* C36: when getEventsByUserIdHandler replies it sends one response: the
\* bare array exactly when no lookup of the user's list was answered 404,
\* otherwise an object with the ids answered 404 as missingEvents, in the
\* order of the list, and their number; in both cases the events are those
\* of the lookups not answered 404, in the order of the list.
C36_EventsResponse ==
    (http.op = "getEventsByUserId" /\ http.out.sent # <<>>) =>
        LET in == http.in
            out == http.out
            Missing(e) == in.lookup[e] = "not found"
            Present(e) == in.lookup[e] # "not found"
            r == out.sent[1]
        IN /\ Len(out.sent) = 1
           /\ r.kind = "array" <=> SelectSeq(in.body.events, Missing) = <<>>
           /\ r.kind \in {"array", "object"}
           /\ [i \in 1..Len(r.events) |-> r.events[i].id] =
                  SelectSeq(in.body.events, Present)
           /\ r.kind = "object" =>
                  /\ r.missingEvents = SelectSeq(in.body.events, Missing)
                  /\ r.count = Len(r.missingEvents)

C36_Witness ==
    /\ http.op = "getEventsByUserId"
    /\ Len(http.out.sent) = 1
    /\ http.out.sent[1].kind = "object"
    /\ Len(http.in.body.events) = 2
    /\ http.in.body.events[1] # http.in.body.events[2]
    /\ http.out.sent[1].missingEvents = <<http.in.body.events[1]>>
    /\ Len(http.out.sent[1].events) = 1

\* C37: the error handler answers with the statusCode of the error, or
\* 500 when it has none, and with 400 and code VALIDATION_ERROR when the
\* error is a validation failure; the body has a message, the statusCode
\* of the answer, a timestamp and the url of the request as path.
C37_ErrorResponse ==
    http.op = "error" =>
        LET e == http.in.error
            o == http.out
        IN /\ o.status = IF e.validation THEN STATUS_BAD_REQUEST
                         ELSE IF e.statusCode = 0 THEN STATUS_INTERNAL
                         ELSE e.statusCode
           /\ e.validation => o.body.error.code = "VALIDATION_ERROR"
           /\ o.body.error.message # ""
           /\ o.body.error.statusCode = o.status
           /\ o.body.timestamp # ""
           /\ o.body.path = http.in.url

C37_Witness ==
    /\ http.op = "error"
    /\ ~http.in.error.validation
    /\ http.in.error.statusCode = 0 /\ http.in.error.message = ""
    /\ http.out.status = STATUS_INTERNAL
    /\ http.out.body.error.message = "Internal Server Error"

====
